---- MODULE Spec2Model ----
(***************************************************************************)
(* Colour model and theme layer of emissor-de-certificados:                *)
(*   src/src/utils/color.py                  class Color                   *)
(*   src/src/components/themes/base_theme.py ElevationOverlay, States      *)
(*                                                                         *)
(* Python values are modelled as follows.                                  *)
(*   - a str is a sequence of one-character strings;                       *)
(*   - a channel list is a sequence of integers whose 4th element, the     *)
(*     alpha, is counted in hundredths (0.25 is 25, 1 is 100);             *)
(*   - a Color object is a record of its five attributes, held in a heap   *)
(*     `colors` indexed by object identity;                                *)
(*   - a call returns a record [err, val, ...]; err is "none" or the name  *)
(*     of the Python exception that leaves the call.                       *)
(***************************************************************************)
EXTENDS Integers, Sequences, FiniteSets, TLC

\* ------------------------------------------------------------------ bounds
\* Number of calls the client makes in one run.
MaxSteps == 2
\* Number of Color objects the client keeps alive.
MaxColors == 2
\* Longest color_list handed to blend_list.
MaxBlend == 3

\* ------------------------------------------------------- Python primitives
NoErr == "none"
ValueError == "ValueError"
TypeError == "TypeError"
KeyError == "KeyError"
AttributeError == "AttributeError"

\* Mutant of Ceil: the quotient is truncated, as int(num / den) would.
Ceil_Truncated(num, den) == num \div den

\* Mutant of Ceil: the ceiling taken as int(num / den) + 1, which is one too
\* many whenever den divides num.
Ceil_FloorPlusOne(num, den) == (num \div den) + 1

\* math.ceil(num / den) for an integer quotient, den > 0.
Ceil(num, den) == -((-num) \div den)

\* Pairs <<channel, alpha in hundredths>> (channel in 0..255, alpha in
\* 0..100) whose IEEE-754 double product lies just above the exact integer
\* product, so that math.ceil of it is one more than the exact ceiling
\* (100 * 0.07 is 7.000000000000001 in Python).
FloatExcess ==
    { <<100,7>>, <<200,7>>, <<50,14>>, <<100,14>>, <<150,14>>, <<200,14>>,
      <<25,28>>, <<50,28>>, <<75,28>>, <<100,28>>, <<150,28>>, <<175,28>>,
      <<200,28>>, <<225,28>>, <<150,34>>, <<100,55>>, <<180,55>>, <<200,55>>,
      <<220,55>>, <<25,56>>, <<50,56>>, <<75,56>>, <<100,56>>, <<150,56>>,
      <<175,56>>, <<200,56>>, <<225,56>>, <<75,68>>, <<150,68>>, <<175,68>> }

\* Mutant of CeilMul: one is added to the quotient whether or not the
\* product is whole.
CeilMul_AlwaysExcess(channel, alpha) == (channel * alpha) \div 100 + 1

\* ceil(channel * alpha) as color.py:121-123 and 149-151 compute it.
CeilMul(channel, alpha) ==
    Ceil(channel * alpha, 100) + (IF <<channel, alpha>> \in FloatExcess THEN 1 ELSE 0)

LowerDigits == <<"0","1","2","3","4","5","6","7","8","9","a","b","c","d","e","f">>
UpperDigits == <<"0","1","2","3","4","5","6","7","8","9","A","B","C","D","E","F">>

\* The characters the class [0-9a-fA-F] of hex_to_rgb's pattern accepts.
HexChars == {LowerDigits[i] : i \in 1..16} \cup {UpperDigits[i] : i \in 1..16}

\* Value of one hexadecimal digit, as int(_, 16) reads it (either case).
DigitValue(ch) ==
    (CHOOSE i \in 1..16 : LowerDigits[i] = ch \/ UpperDigits[i] = ch) - 1

\* int(s, 16) on a non-empty sequence of hexadecimal digits.
Int16(s) ==
    LET value[i \in 0..Len(s)] ==
            IF i = 0 THEN 0 ELSE 16 * value[i - 1] + DigitValue(s[i])
    IN  value[Len(s)]

\* hex(n)[2:] for n >= 0: lowercase digits, no padding.
HexDigits(n) ==
    LET digits[m \in 0..n] ==
            IF m < 16 THEN <<LowerDigits[m + 1]>>
            ELSE Append(digits[m \div 16], LowerDigits[(m % 16) + 1])
    IN  digits[n]

\* str.zfill(width).
zfill(s, width) ==
    IF Len(s) >= width THEN s ELSE [i \in 1..(width - Len(s)) |-> "0"] \o s

\* str.lstrip("#"): every leading '#' is removed.
lstrip(s) ==
    LET kept == {i \in 1..Len(s) : s[i] # "#"}
    IN  IF kept = {} THEN <<>>
        ELSE SubSeq(s, CHOOSE i \in kept : \A j \in kept : i <= j, Len(s))

\* re.match(r"^(?:[0-9a-fA-F]{2}){3}$", s): six hexadecimal digits, and, as
\* Python's $ also matches before a final newline, optionally one "\n".
PatternMatches(s) ==
    /\ Len(s) \in {6, 7}
    /\ \A i \in 1..6 : s[i] \in HexChars
    /\ Len(s) = 7 => s[7] = "\n"

\* Mutant of rgba_to_rgb: alpha is required to lie in the open interval
\* ]0,1[ that the method's comment names, so 0 and 1 are refused.
rgba_to_rgb_OpenAlpha(rgba_color) ==
    IF Len(rgba_color) # 3 /\ Len(rgba_color) # 4
    THEN [err |-> ValueError, val |-> <<>>, arg |-> rgba_color]
    ELSE IF Len(rgba_color) = 4 /\ (rgba_color[4] <= 0 \/ rgba_color[4] >= 100)
    THEN [err |-> ValueError, val |-> <<>>, arg |-> rgba_color]
    ELSE IF \E i \in 1..3 : rgba_color[i] < 0 \/ rgba_color[i] > 255
    THEN [err |-> ValueError, val |-> <<>>, arg |-> rgba_color]
    ELSE LET appended == IF Len(rgba_color) = 3
                         THEN Append(rgba_color, 100) ELSE rgba_color
         IN  [err |-> NoErr,
              val |-> << CeilMul(appended[1], appended[4]),
                         CeilMul(appended[2], appended[4]),
                         CeilMul(appended[3], appended[4]) >>,
              arg |-> appended]

\* ------------------------------------------------- Color's static methods
\* Color.rgba_to_rgb.  arg is the caller's list as the call leaves it.
rgba_to_rgb(rgba_color) ==
    IF Len(rgba_color) # 3 /\ Len(rgba_color) # 4
    THEN [err |-> ValueError, val |-> <<>>, arg |-> rgba_color]
    ELSE IF Len(rgba_color) = 4 /\ (rgba_color[4] < 0 \/ rgba_color[4] > 100)
    THEN [err |-> ValueError, val |-> <<>>, arg |-> rgba_color]
    ELSE IF \E i \in 1..3 : rgba_color[i] < 0 \/ rgba_color[i] > 255
    THEN [err |-> ValueError, val |-> <<>>, arg |-> rgba_color]
    ELSE LET appended == IF Len(rgba_color) = 3
                         THEN Append(rgba_color, 100) ELSE rgba_color
         IN  [err |-> NoErr,
              val |-> << CeilMul(appended[1], appended[4]),
                         CeilMul(appended[2], appended[4]),
                         CeilMul(appended[3], appended[4]) >>,
              arg |-> appended]

\* Color.rgba_to_hex.
rgba_to_hex(rgba_color) ==
    IF Len(rgba_color) # 3 /\ Len(rgba_color) # 4
    THEN [err |-> ValueError, val |-> <<>>, arg |-> rgba_color]
    ELSE IF Len(rgba_color) = 4 /\ (rgba_color[4] < 0 \/ rgba_color[4] > 100)
    THEN [err |-> ValueError, val |-> <<>>, arg |-> rgba_color]
    ELSE IF \E i \in 1..3 : rgba_color[i] < 0 \/ rgba_color[i] > 255
    THEN [err |-> ValueError, val |-> <<>>, arg |-> rgba_color]
    ELSE LET appended == IF Len(rgba_color) = 3
                         THEN Append(rgba_color, 100) ELSE rgba_color
             r == zfill(HexDigits(CeilMul(appended[1], appended[4])), 2)
             g == zfill(HexDigits(CeilMul(appended[2], appended[4])), 2)
             b == zfill(HexDigits(CeilMul(appended[3], appended[4])), 2)
         IN  [err |-> NoErr, val |-> <<"#">> \o r \o g \o b, arg |-> appended]

\* Color.hex_to_rgb.
hex_to_rgb(hex_color) ==
    LET stripped == lstrip(hex_color)
        offset == Len(stripped) \div 3
    IN  IF ~PatternMatches(stripped)
        THEN [err |-> ValueError, val |-> <<>>]
        ELSE [err |-> NoErr,
              val |-> << Int16(SubSeq(stripped, 1, offset)),
                         Int16(SubSeq(stripped, offset + 1, offset * 2)),
                         Int16(SubSeq(stripped, offset * 2 + 1, offset * 3)) >>]

\* ------------------------------------------------------------ Color class
\* A Python value handed to a call.  t is its type; for a Color, id is the
\* object; for a list, id is the caller's list (0 for a list literal, whose
\* value is v); for a str, v is its characters.
ColorRef(id) == [t |-> "Color", id |-> id, v |-> <<>>]
ListRef(id) == [t |-> "list", id |-> id, v |-> <<>>]
ListLit(v) == [t |-> "list", id |-> 0, v |-> v]
Str(v) == [t |-> "str", id |-> 0, v |-> v]
Other == [t |-> "other", id |-> 0, v |-> <<>>]
\* c.rgb handed to a call: the getter returns the object's own list.
RgbOf(id) == [t |-> "rgb", id |-> id, v |-> <<>>]

\* The attributes no object has (the result slot of a call that raised).
NoObj == [rgb |-> <<>>, hex |-> <<>>, r |-> -1, g |-> -1, b |-> -1]

\* Color.__init__ on a list value or a str value.  arg is the argument as the
\* call leaves it (a list is passed by reference through both conversions).
Color_init(t, v) ==
    LET Object(rgb, hex) ==
            [rgb |-> rgb, hex |-> hex, r |-> rgb[1], g |-> rgb[2], b |-> rgb[3]]
        FromHex(rgb) ==
            IF rgb.err # NoErr THEN [err |-> rgb.err, obj |-> NoObj, arg |-> v]
            ELSE [err |-> NoErr, obj |-> Object(rgb.val, v), arg |-> v]
        WithHex(rgb, hex) ==
            IF hex.err # NoErr THEN [err |-> hex.err, obj |-> NoObj, arg |-> hex.arg]
            ELSE [err |-> NoErr, obj |-> Object(rgb.val, hex.val), arg |-> hex.arg]
        FromList(rgb) ==
            IF rgb.err # NoErr THEN [err |-> rgb.err, obj |-> NoObj, arg |-> rgb.arg]
            ELSE WithHex(rgb, rgba_to_hex(rgb.arg))
    IN  IF t = "list" THEN FromList(rgba_to_rgb(v))
        ELSE IF t = "str" THEN FromHex(hex_to_rgb(v))
        ELSE [err |-> TypeError, obj |-> NoObj, arg |-> v]

\* One element of color_list converted as the loop of Color.blend_list
\* converts it; ls is the caller's lists before, lists after.
Convert(color, cs, ls) ==
    LET OfList(c) ==
            [err |-> c.err, val |-> c.val,
             lists |-> IF color.id = 0 THEN ls ELSE [ls EXCEPT ![color.id] = c.arg]]
        OfStr(c) == [err |-> c.err, val |-> c.val, lists |-> ls]
    IN  IF color.t = "Color"
        THEN [err |-> NoErr, val |-> cs[color.id].rgb, lists |-> ls]
        ELSE IF color.t = "list"
        THEN OfList(rgba_to_rgb(IF color.id = 0 THEN color.v ELSE ls[color.id]))
        ELSE IF color.t = "str"
        THEN OfStr(hex_to_rgb(color.v))
        ELSE [err |-> TypeError, val |-> <<>>, lists |-> ls]

\* Mutant of BlendLoop: the accumulators are reset inside the loop, so only
\* the last element is counted.
BlendLoop_ResetInLoop(color_list, cs, ls) ==
    LET Add(before, conv) ==
            IF conv.err # NoErr
            THEN [err |-> conv.err, sum |-> before.sum, lists |-> conv.lists]
            ELSE [err |-> NoErr, sum |-> conv.val, lists |-> conv.lists]
        Step(before, color) ==
            IF before.err # NoErr THEN before
            ELSE Add(before, Convert(color, cs, before.lists))
        after[i \in 0..Len(color_list)] ==
            IF i = 0 THEN [err |-> NoErr, sum |-> <<0, 0, 0>>, lists |-> ls]
            ELSE Step(after[i - 1], color_list[i])
    IN  after[Len(color_list)]

\* The loop of Color.blend_list: the state after i elements, sum being
\* <<new_r, new_g, new_b>>.  An exception ends the loop where it is raised.
BlendLoop(color_list, cs, ls) ==
    LET Add(before, conv) ==
            IF conv.err # NoErr
            THEN [err |-> conv.err, sum |-> before.sum, lists |-> conv.lists]
            ELSE [err |-> NoErr,
                  sum |-> << before.sum[1] + conv.val[1],
                             before.sum[2] + conv.val[2],
                             before.sum[3] + conv.val[3] >>,
                  lists |-> conv.lists]
        Step(before, color) ==
            IF before.err # NoErr THEN before
            ELSE Add(before, Convert(color, cs, before.lists))
        after[i \in 0..Len(color_list)] ==
            IF i = 0 THEN [err |-> NoErr, sum |-> <<0, 0, 0>>, lists |-> ls]
            ELSE Step(after[i - 1], color_list[i])
    IN  after[Len(color_list)]

\* Color.blend_list.  obj is the new Color, lists the caller's lists after.
blend_list(color_list, cs, ls) ==
    LET Return(new, lists_after) ==
            [err |-> new.err, obj |-> new.obj, lists |-> lists_after]
        Mean(loop) ==
            IF loop.err # NoErr
            THEN [err |-> loop.err, obj |-> NoObj, lists |-> loop.lists]
            ELSE Return(Color_init("list", << Ceil(loop.sum[1], Len(color_list)),
                                             Ceil(loop.sum[2], Len(color_list)),
                                             Ceil(loop.sum[3], Len(color_list)) >>),
                        loop.lists)
    IN  IF Len(color_list) = 0
        THEN [err |-> ValueError, obj |-> NoObj, lists |-> ls]
        ELSE Mean(BlendLoop(color_list, cs, ls))

\* Mutant of blend: self is blended with itself.
blend_SelfTwice(self, other, cs, ls) ==
    blend_list(<<Str(cs[self].hex), Str(cs[self].hex)>>, cs, ls)

\* Color.blend, up to the test of inplace: the blended Color.
blend(self, other, cs, ls) ==
    blend_list(<<Str(cs[self].hex), Str(cs[other].hex)>>, cs, ls)

\* ------------------------------------------- ElevationOverlay and States
DecChars == <<"0","1","2","3","4","5","6","7","8","9">>

\* The decimal digits of n >= 0, as the format specifier d writes them.
DecDigits(n) ==
    LET digits[m \in 0..n] ==
            IF m < 10 THEN <<DecChars[m + 1]>>
            ELSE Append(digits[m \div 10], DecChars[(m % 10) + 1])
    IN  digits[n]

\* f"dp{n:02d}", the key of a level in ElevationOverlay.members.
DpKey(n) == <<"d", "p">> \o zfill(DecDigits(n), 2)

\* The (level, alpha) table of ElevationOverlay.__init__, alpha in hundredths.
alphas ==
    << <<1, 5>>, <<2, 7>>, <<3, 8>>, <<4, 9>>, <<6, 11>>, <<8, 12>>,
       <<12, 14>>, <<16, 15>>, <<24, 16>> >>

\* Mutant of OverlayBlend: surface and contrast change places.
OverlayBlend_Swapped(surface, contrast, a, cs, ls) ==
    blend_list(<< ColorRef(contrast),
                  ListLit(<<cs[surface].r, cs[surface].g, cs[surface].b, a>>) >>,
               cs, ls)

\* The blend ElevationOverlay.__init__ computes for one alpha.
OverlayBlend(surface, contrast, a, cs, ls) ==
    blend_list(<< ColorRef(surface),
                  ListLit(<<cs[contrast].r, cs[contrast].g, cs[contrast].b, a>>) >>,
               cs, ls)

\* ElevationOverlay.__init__: the members dictionary, key -> str(Color).
ElevationOverlay_init(surface, contrast, cs, ls) ==
    LET Members(blends) ==
            IF \E i \in 1..Len(alphas) : blends[i].err # NoErr
            THEN [err |-> (blends[CHOOSE i \in 1..Len(alphas) : blends[i].err # NoErr]).err,
                  members |-> <<>>]
            ELSE [err |-> NoErr,
                  members |-> [k \in {DpKey(alphas[i][1]) : i \in 1..Len(alphas)} |->
                                 blends[CHOOSE i \in 1..Len(alphas) :
                                          DpKey(alphas[i][1]) = k].obj.hex]]
    IN  Members([i \in 1..Len(alphas) |->
                   OverlayBlend(surface, contrast, alphas[i][2], cs, ls)])

\* self.members[key]: dict.__getitem__ raises KeyError for a missing key.
Subscript(members, key) ==
    IF key \in DOMAIN members
    THEN [err |-> NoErr, val |-> members[key]]
    ELSE [err |-> KeyError, val |-> <<>>]

\* ElevationOverlay.get_elevation: the bare except turns whatever the lookup
\* raised into a ValueError.
get_elevation(members, overlay_level) ==
    LET Except(found) ==
            IF found.err # NoErr THEN [err |-> ValueError, val |-> <<>>] ELSE found
    IN  Except(Subscript(members, DpKey(overlay_level)))

\* ElevationOverlay.get_all_members: the dictionary itself, not a copy.
get_all_members(members) == members

\* States.hover/focus/pressed/dragged/selected: the state colour is blended
\* with the argument.
tint(state_color, color, cs, ls) ==
    blend_list(<<ColorRef(state_color), color>>, cs, ls)

\* ------------------------------------------------------------- the themes
\* BaseTheme.EmphasisLevel: HIGH, MEDIUM, DISABLED = auto().
HIGH == 1
MEDIUM == 2
DISABLED == 3
EmphasisLevel == {HIGH, MEDIUM, DISABLED}

\* The tuples the emphasis functions of BlackTheme (1) and WhiteTheme (2)
\* hand to Color.rgba_to_hex, by level.
SurfaceEmphasis ==
    << << <<255, 255, 255, 87>>, <<255, 255, 255, 74>>, <<255, 255, 255, 38>> >>,
       << <<0, 0, 0, 87>>, <<0, 0, 0, 60>>, <<0, 0, 0, 38>> >> >>
PrimaryEmphasis ==
    << << <<0, 0, 0, 100>>, <<0, 0, 0, 74>>, <<0, 0, 0, 38>> >>,
       << <<255, 255, 255, 100>>, <<255, 255, 255, 74>>, <<255, 255, 255, 38>> >> >>

\* color.getHex(): class Color defines no such attribute.
getHex(color) == [err |-> AttributeError, val |-> <<>>]

\* return Color.blend([emphasis_blend_color, color.getHex()]): the list is
\* evaluated first; were it built, Color.blend would be called without its
\* argument other, a TypeError.
emphasis(rgba, color, cs) ==
    LET Apply(emphasis_blend_color, hex) ==
            IF emphasis_blend_color.err # NoErr
            THEN [err |-> emphasis_blend_color.err, obj |-> NoObj]
            ELSE IF hex.err # NoErr THEN [err |-> hex.err, obj |-> NoObj]
            ELSE [err |-> TypeError, obj |-> NoObj]
    IN  Apply(rgba_to_hex(rgba), getHex(cs[color]))

\* BlackTheme/WhiteTheme.emphasis_on_surface
emphasis_on_surface(theme, color, emphasis_level, cs) ==
    emphasis(SurfaceEmphasis[theme][emphasis_level], color, cs)

\* BlackTheme/WhiteTheme.emphasis_on_primary
emphasis_on_primary(theme, color, emphasis_level, cs) ==
    emphasis(PrimaryEmphasis[theme][emphasis_level], color, cs)

\* ------------------------------------------------------- the client's inputs
\* Strings the client passes where a hex colour is expected.
StrInputs ==
    { <<"#","F","F","F","F","F","F">>,          \* "#FFFFFF"
      <<"0","0","0","0","0","0">>,              \* "000000"
      <<"#","1","2","8","0","f","e">>,          \* "#1280fe"
      <<"#","#","1","2","1","2","1","2">>,      \* "##121212"
      <<"0","a","0","B","0","c","\n">>,         \* "0a0B0c\n"
      <<"1","2","3","4","5">>,                  \* "12345"
      <<"z","z","z","z","z","z">>,              \* "zzzzzz"
      <<"f","f","f">>,                          \* "fff"
      <<"#","1","2","3","4","5","6","7","8">>,  \* "#12345678"
      <<"#","f","f","f","f","f","f","#">> }     \* "#ffffff#"

\* Strings the client puts in a color_list.
BlendStrs ==
    { <<"#","F","F","F","F","F","F">>, <<"0","0","0","0","0","0">>,
      <<"z","z","z","z","z","z">> }

\* The two channel lists the client holds when it starts (alpha in hundredths).
ListPairs ==
    << << <<1, 2, 3>>, <<255, 255, 255, 50>> >>,
       << <<18, 52, 86, 0>>, <<10, 20, 255, 25>> >>,
       << <<300, 0, 0>>, <<10, 10, 10, 150>> >>,
       << <<1, 2>>, <<1, 2, 3, 100, 5>> >>,
       << <<0, -1, 0>>, <<7, 7, 7, -25>> >>,
       << <<0, 0, 256>>, <<0, 255, 128, 100>> >> >>

\* Strings the client assigns to hex.
HexInputs ==
    { <<"#","F","F","F","F","F","F">>, <<"#","#","1","2","1","2","1","2">>,
      <<"z","z","z","z","z","z">> }

\* Values the client assigns to one channel.
ChanInputs == {0, 50, 255, 256, -1}

\* Levels the client asks an ElevationOverlay for.
LevelInputs == {1, 5, 8, 24, 100}

ListIds == {1, 2}

\* ------------------------------------------------------------------- state
VARIABLES
    colors,   \* the Color objects alive, by identity (1..Len(colors))
    lists,    \* the channel lists the client holds, by identity
    overlay,  \* the client's ElevationOverlay: [built, members]
    states,   \* the client's States: [built, hover, focus, pressed, dragged, selected]
    last,     \* the last call: its arguments, its outcome, and the state before it
    steps     \* number of calls made

vars == <<colors, lists, overlay, states, last, steps>>

ColorIds == 1..Len(colors)

\* The record of a call.  ret is the identity of the object returned when it
\* is one the client already holds, 0 otherwise; obj the attributes of a
\* returned Color; val a returned str or list.
Call(op, self, other, inplace, args, n, err, ret, obj, val) ==
    [op |-> op, self |-> self, other |-> other, inplace |-> inplace,
     args |-> args, n |-> n, err |-> err, ret |-> ret, obj |-> obj, val |-> val,
     colors |-> colors, lists |-> lists]

\* The value of an argument before the call.
ArgValue(x, ls) == IF x.t = "list" /\ x.id # 0 THEN ls[x.id] ELSE x.v

\* The class attributes of a concrete theme that the model follows:
\* surface = Color(surface), elevation_overlay = ElevationOverlay(surface,
\* Color(contrast)).  BlackTheme and WhiteTheme.
Themes ==
    << [surface |-> <<"#","1","2","1","2","1","2">>,
        contrast |-> <<"#","f","f","f","f","f","f">>],
       [surface |-> <<"#","F","F","F","F","F","F">>,
        contrast |-> <<"#","0","0","0","0","0","0">>] >>

Start(ls) ==
    [op |-> "start", self |-> 0, other |-> 0, inplace |-> FALSE, args |-> <<>>,
     n |-> 0, err |-> NoErr, ret |-> 0, obj |-> NoObj, val |-> <<>>,
     colors |-> <<>>, lists |-> ls]

NoStates ==
    [built |-> FALSE, hover |-> 0, focus |-> 0, pressed |-> 0, dragged |-> 0,
     selected |-> 0]

\* The program once a theme class is defined: the client holds the theme's
\* surface colour and its elevation overlay, two channel lists of its own,
\* and has built no States yet.  The i-th pair of lists goes with BlackTheme
\* for odd i and with WhiteTheme for even i.
Init ==
    \E i \in 1..Len(ListPairs) :
        LET theme == Themes[2 - (i % 2)]
            surface == Color_init("str", theme.surface).obj
            contrast == Color_init("str", theme.contrast).obj
        IN  /\ lists = ListPairs[i]
            /\ colors = <<surface>>
            /\ overlay = [built |-> TRUE,
                          members |-> ElevationOverlay_init(
                                          1, 2, <<surface, contrast>>, lists).members]
            /\ states = NoStates
            /\ last = Start(lists)
            /\ steps = 0

\* ------------------------------------------------------------------ actions
\* c = Color(x) with x one of the client's lists, a str, or another value.
Construct(x) ==
    LET Bind(res) ==
            /\ colors' = IF res.err = NoErr THEN Append(colors, res.obj) ELSE colors
            /\ lists' = IF x.t = "list" THEN [lists EXCEPT ![x.id] = res.arg] ELSE lists
            /\ last' = Call("Color", 0, 0, FALSE, <<x>>, 0, res.err,
                            IF res.err = NoErr THEN Len(colors) + 1 ELSE 0,
                            res.obj, <<>>)
    IN  /\ steps < MaxSteps
        /\ Len(colors) < MaxColors
        /\ Bind(Color_init(x.t, ArgValue(x, lists)))
        /\ steps' = steps + 1
        /\ UNCHANGED <<overlay, states>>

\* d = Color(c.rgb): the list the constructor works on is c's own.
Construct_of(c) ==
    LET Bind(res) ==
            /\ colors' = IF res.err = NoErr
                         THEN Append([colors EXCEPT ![c].rgb = res.arg], res.obj)
                         ELSE [colors EXCEPT ![c].rgb = res.arg]
            /\ last' = Call("Color", 0, c, FALSE, <<RgbOf(c)>>, 0, res.err,
                            IF res.err = NoErr THEN Len(colors) + 1 ELSE 0,
                            res.obj, <<>>)
    IN  /\ steps < MaxSteps
        /\ Len(colors) < MaxColors
        /\ Bind(Color_init("list", colors[c].rgb))
        /\ steps' = steps + 1
        /\ UNCHANGED <<lists, overlay, states>>

\* Mutant of Update: the setter stores the new channels and leaves the hex
\* string as it was.
Update_StaleHex(op, self, x, n, res) ==
    /\ colors' = IF res.err = NoErr
                 THEN [colors EXCEPT ![self] = [res.obj EXCEPT !.hex = colors[self].hex]]
                 ELSE colors
    /\ lists' = IF x.t = "list" /\ x.id # 0 THEN [lists EXCEPT ![x.id] = res.arg] ELSE lists
    /\ last' = Call(op, self, 0, FALSE, <<x>>, n, res.err, 0, NoObj, <<>>)
    /\ steps' = steps + 1
    /\ UNCHANGED <<overlay, states>>

\* self.__dict__.update(Color(new_color).__dict__) of the setters: res is
\* what Color(new_color) gave.
Update(op, self, x, n, res) ==
    /\ colors' = IF res.err = NoErr THEN [colors EXCEPT ![self] = res.obj] ELSE colors
    /\ lists' = IF x.t = "list" /\ x.id # 0 THEN [lists EXCEPT ![x.id] = res.arg] ELSE lists
    /\ last' = Call(op, self, 0, FALSE, <<x>>, n, res.err, 0, NoObj, <<>>)
    /\ steps' = steps + 1
    /\ UNCHANGED <<overlay, states>>

\* self.r = new_value
r_setter(self, new_value) ==
    LET Assign(new_color) ==
            Update("r", self, ListLit(new_color), new_value, Color_init("list", new_color))
    IN  /\ steps < MaxSteps
        /\ Assign(<<new_value, colors[self].rgb[2], colors[self].rgb[3]>>)

\* self.g = new_value
g_setter(self, new_value) ==
    LET Assign(new_color) ==
            Update("g", self, ListLit(new_color), new_value, Color_init("list", new_color))
    IN  /\ steps < MaxSteps
        /\ Assign(<<colors[self].rgb[1], new_value, colors[self].rgb[3]>>)

\* self.b = new_value
b_setter(self, new_value) ==
    LET Assign(new_color) ==
            Update("b", self, ListLit(new_color), new_value, Color_init("list", new_color))
    IN  /\ steps < MaxSteps
        /\ Assign(<<colors[self].rgb[1], colors[self].rgb[2], new_value>>)

\* self.rgb = new_value, new_value one of the client's lists.
rgb_setter(self, l) ==
    /\ steps < MaxSteps
    /\ Update("rgb", self, ListRef(l), 0, Color_init("list", lists[l]))

\* self.rgb = other.rgb: the list Color(new_value) works on is other's own.
rgb_setter_of(self, other) ==
    LET Assign(res) ==
            /\ colors' = IF res.err = NoErr
                         THEN [[colors EXCEPT ![other].rgb = res.arg] EXCEPT ![self] = res.obj]
                         ELSE [colors EXCEPT ![other].rgb = res.arg]
            /\ last' = Call("rgb", self, other, FALSE, <<RgbOf(other)>>, 0, res.err, 0,
                            NoObj, <<>>)
    IN  /\ steps < MaxSteps
        /\ Assign(Color_init("list", colors[other].rgb))
        /\ steps' = steps + 1
        /\ UNCHANGED <<lists, overlay, states>>

\* self.hex = new_value
hex_setter(self, new_value) ==
    /\ steps < MaxSteps
    /\ Update("hex", self, Str(new_value), 0, Color_init("str", new_value))

\* self.blend(other, inplace)
Blend(self, other, inplace) ==
    LET Return(blended) ==
            /\ colors' = IF blended.err = NoErr /\ inplace
                         THEN [colors EXCEPT ![self] = blended.obj] ELSE colors
            /\ lists' = blended.lists
            /\ last' = Call("blend", self, other, inplace, <<>>, 0, blended.err,
                            IF blended.err = NoErr /\ inplace THEN self ELSE 0,
                            blended.obj, <<>>)
    IN  /\ steps < MaxSteps
        /\ Return(blend(self, other, colors, lists))
        /\ steps' = steps + 1
        /\ UNCHANGED <<overlay, states>>

\* What the client puts in a color_list.
BlendElems ==
    {ColorRef(c) : c \in ColorIds} \cup {ListRef(l) : l \in ListIds}
        \cup {Str(x) : x \in BlendStrs} \cup {Other}

\* A call that returns a new Color or a value and leaves the objects alone:
\* res is what the method gave, lists_after the client's lists after it.
Returned(op, self, args, res, val, lists_after) ==
    /\ lists' = lists_after
    /\ last' = Call(op, self, 0, FALSE, args, 0, res.err, 0, res.obj, val)
    /\ steps' = steps + 1
    /\ UNCHANGED <<colors, overlay, states>>

\* Color.blend_list(color_list), applied once to the inputs drawn.
BlendList(color_list) ==
    LET Return(res) == Returned("blend_list", 0, color_list, res, <<>>, res.lists)
    IN  /\ steps = 0
        /\ Return(blend_list(color_list, colors, lists))

\* Color.rgba_to_rgb(l) on one of the client's lists.
RgbaToRgb(l) ==
    LET Return(res) ==
            Returned("rgba_to_rgb", 0, <<ListRef(l)>>, [err |-> res.err, obj |-> NoObj],
                     res.val, [lists EXCEPT ![l] = res.arg])
    IN  /\ steps < MaxSteps
        /\ Return(rgba_to_rgb(lists[l]))

\* Color.rgba_to_hex(l) on one of the client's lists.
RgbaToHex(l) ==
    LET Return(res) ==
            Returned("rgba_to_hex", 0, <<ListRef(l)>>, [err |-> res.err, obj |-> NoObj],
                     res.val, [lists EXCEPT ![l] = res.arg])
    IN  /\ steps < MaxSteps
        /\ Return(rgba_to_hex(lists[l]))

\* overlay = ElevationOverlay(surface, contrast)
NewOverlay(surface, contrast) ==
    LET Bind(res) ==
            /\ overlay' = IF res.err = NoErr
                          THEN [built |-> TRUE, members |-> res.members] ELSE overlay
            /\ last' = Call("ElevationOverlay", surface, contrast, FALSE, <<>>, 0,
                            res.err, 0, NoObj, <<>>)
    IN  /\ steps < MaxSteps
        /\ Bind(ElevationOverlay_init(surface, contrast, colors, lists))
        /\ steps' = steps + 1
        /\ UNCHANGED <<colors, lists, states>>

\* overlay.get_elevation(overlay_level)
GetElevation(overlay_level) ==
    LET Return(res) ==
            last' = Call("get_elevation", 0, 0, FALSE, <<>>, overlay_level, res.err, 0,
                         NoObj, res.val)
    IN  /\ steps < MaxSteps
        /\ overlay.built
        /\ Return(get_elevation(overlay.members, overlay_level))
        /\ steps' = steps + 1
        /\ UNCHANGED <<colors, lists, overlay, states>>

\* The keys and the value the client writes through get_all_members().
MemberKeys == {DpKey(8), DpKey(5)}
MemberValue == <<"#","0","0","0","0","0","0">>

\* overlay.get_all_members()[key] = value
MembersSetItem(key, value) ==
    LET Store(m) ==
            overlay' = [overlay EXCEPT !.members =
                           [k \in (DOMAIN m) \cup {key} |-> IF k = key THEN value ELSE m[k]]]
    IN  /\ steps < MaxSteps
        /\ overlay.built
        /\ Store(get_all_members(overlay.members))
        /\ last' = Call("get_all_members", 0, 0, FALSE, <<Str(key)>>, 0, NoErr, 0, NoObj, value)
        /\ steps' = steps + 1
        /\ UNCHANGED <<colors, lists, states>>

\* del overlay.get_all_members()[key]
MembersDelItem(key) ==
    LET Remove(m) ==
            overlay' = [overlay EXCEPT !.members = [k \in (DOMAIN m) \ {key} |-> m[k]]]
    IN  /\ steps < MaxSteps
        /\ overlay.built
        /\ key \in DOMAIN overlay.members
        /\ Remove(get_all_members(overlay.members))
        /\ last' = Call("get_all_members", 0, 0, FALSE, <<Str(key)>>, 0, NoErr, 0, NoObj, <<>>)
        /\ steps' = steps + 1
        /\ UNCHANGED <<colors, lists, states>>

\* states = States(hover, rest, rest, rest, rest): the five colours are stored
\* as given.
NewStates(hover_color, rest) ==
    /\ steps < MaxSteps
    /\ states' = [built |-> TRUE, hover |-> hover_color, focus |-> rest,
                  pressed |-> rest, dragged |-> rest, selected |-> rest]
    /\ last' = Call("States", hover_color, rest, FALSE, <<>>, 0, NoErr, 0, NoObj, <<>>)
    /\ steps' = steps + 1
    /\ UNCHANGED <<colors, lists, overlay>>

\* What the client hands to a tint method.
TintArgs == {ColorRef(1), ListRef(1), Str(<<"0","0","0","0","0","0">>)}

\* states.<which>(color), which the name of one of the five methods and
\* state_color the colour it blends.
Tint(which, state_color, color) ==
    LET Return(res) == Returned(which, state_color, <<color>>, res, <<>>, res.lists)
    IN  /\ steps < MaxSteps
        /\ states.built
        /\ Return(tint(state_color, color, colors, lists))

hover(color) == Tint("hover", states.hover, color)
focus(color) == Tint("focus", states.focus, color)
pressed(color) == Tint("pressed", states.pressed, color)
dragged(color) == Tint("dragged", states.dragged, color)
selected(color) == Tint("selected", states.selected, color)

\* A call of an emphasis function of a theme; the record of the call keeps
\* the theme in other and the level in n.
Emphasis(op, theme, color, emphasis_level, res) ==
    /\ steps < MaxSteps
    /\ last' = Call(op, color, theme, FALSE, <<>>, emphasis_level, res.err, 0, res.obj, <<>>)
    /\ steps' = steps + 1
    /\ UNCHANGED <<colors, lists, overlay, states>>

\* theme.emphasis_on_surface(color, emphasis_level)
EmphasisOnSurface(theme, color, emphasis_level) ==
    Emphasis("emphasis_on_surface", theme, color, emphasis_level,
             emphasis_on_surface(theme, color, emphasis_level, colors))

\* theme.emphasis_on_primary(color, emphasis_level)
EmphasisOnPrimary(theme, color, emphasis_level) ==
    Emphasis("emphasis_on_primary", theme, color, emphasis_level,
             emphasis_on_primary(theme, color, emphasis_level, colors))

\* The color_lists the client builds: every sequence of at most MaxBlend
\* elements.
ColorLists == UNION {[1..n -> BlendElems] : n \in 0..MaxBlend}

Next ==
    \/ \E x \in {ListRef(l) : l \in ListIds} \cup {Str(v) : v \in StrInputs} \cup {Other} :
          Construct(x)
    \/ \E c \in ColorIds : Construct_of(c)
    \/ \E self \in ColorIds, new_value \in ChanInputs : r_setter(self, new_value)
    \/ \E self \in ColorIds, new_value \in ChanInputs : g_setter(self, new_value)
    \/ \E self \in ColorIds, new_value \in ChanInputs : b_setter(self, new_value)
    \/ \E self \in ColorIds, l \in ListIds : rgb_setter(self, l)
    \/ \E self \in ColorIds, other \in ColorIds : rgb_setter_of(self, other)
    \/ \E self \in ColorIds, new_value \in HexInputs : hex_setter(self, new_value)
    \/ \E self \in ColorIds, other \in ColorIds, inplace \in BOOLEAN :
          Blend(self, other, inplace)
    \/ \E l \in ListIds : RgbaToRgb(l)
    \/ \E l \in ListIds : RgbaToHex(l)
    \/ \E surface \in ColorIds, contrast \in ColorIds : NewOverlay(surface, contrast)
    \/ \E overlay_level \in LevelInputs : GetElevation(overlay_level)
    \/ \E key \in MemberKeys : MembersSetItem(key, MemberValue)
    \/ \E key \in MemberKeys : MembersDelItem(key)
    \/ \E h \in ColorIds, rest \in ColorIds : NewStates(h, rest)
    \/ \E color \in TintArgs : hover(color)
    \/ \E color \in TintArgs : focus(color)
    \/ \E color \in TintArgs : pressed(color)
    \/ \E color \in TintArgs : dragged(color)
    \/ \E color \in TintArgs : selected(color)
    \/ \E theme \in 1..Len(Themes), color \in ColorIds, emphasis_level \in EmphasisLevel :
          EmphasisOnSurface(theme, color, emphasis_level)
    \/ \E theme \in 1..Len(Themes), color \in ColorIds, emphasis_level \in EmphasisLevel :
          EmphasisOnPrimary(theme, color, emphasis_level)

Spec == Init /\ [][Next]_vars

\* ------------------------------------------- blend_list on its own inputs
\* The Color objects blend_list is applied to.
BlendHeaps ==
    { << Color_init("str", <<"#","F","F","F","F","F","F">>).obj,
         Color_init("list", <<1, 2, 3>>).obj >>,
      << Color_init("str", <<"0","0","0","0","0","0">>).obj,
         Color_init("list", <<255, 128, 10, 75>>).obj >> }

\* The i-th pair of lists goes with the heap holding white for odd i and
\* with the one holding black for even i.
InitBlend ==
    /\ \E i \in 1..Len(ListPairs) :
          /\ lists = ListPairs[i]
          /\ last = Start(lists)
          /\ colors = CHOOSE heap \in BlendHeaps : (heap[1].r = 255) <=> (i % 2 = 1)
    /\ overlay = [built |-> FALSE, members |-> <<>>]
    /\ states = NoStates
    /\ steps = 0

NextBlend == \E color_list \in ColorLists : BlendList(color_list)

SpecBlend == InitBlend /\ [][NextBlend]_vars

\* ============================================================= properties
\* Reference definitions, written from the specification's wording and
\* independent of the operators above.

\* The least integer k with k >= num / den (den > 0, 0 <= num).
CeilOf(num, den) == CHOOSE k \in 0..(num + 1) : k * den >= num /\ (k - 1) * den < num

\* ^#?[0-9a-fA-F]{6}$ : at most one leading '#', then exactly six digits.
WellFormedHex(s) ==
    LET digits == IF Len(s) > 0 /\ s[1] = "#" THEN Tail(s) ELSE s
    IN  Len(digits) = 6 /\ \A i \in 1..6 : digits[i] \in HexChars

\* The channel triple a well-formed hex string denotes.
TripleOf(s) ==
    LET digits == IF s[1] = "#" THEN Tail(s) ELSE s
    IN  << 16 * DigitValue(digits[1]) + DigitValue(digits[2]),
           16 * DigitValue(digits[3]) + DigitValue(digits[4]),
           16 * DigitValue(digits[5]) + DigitValue(digits[6]) >>

\* The canonical "#rrggbb" of a channel triple.
CanonicalHex(rgb) ==
    << "#", LowerDigits[(rgb[1] \div 16) + 1], LowerDigits[(rgb[1] % 16) + 1],
            LowerDigits[(rgb[2] \div 16) + 1], LowerDigits[(rgb[2] % 16) + 1],
            LowerDigits[(rgb[3] \div 16) + 1], LowerDigits[(rgb[3] % 16) + 1] >>

\* A channel list the constructor must accept: 3 or 4 elements, r, g, b in
\* [0,255], alpha (hundredths) in [0,1].
ValidChannels(l) ==
    /\ Len(l) \in {3, 4}
    /\ \A i \in 1..3 : l[i] >= 0 /\ l[i] <= 255
    /\ Len(l) = 4 => (l[4] >= 0 /\ l[4] <= 100)

\* ceil(channel * alpha) per channel, alpha 1 when omitted.
Premultiplied(l) ==
    LET alpha == IF Len(l) = 4 THEN l[4] ELSE 100
    IN  << CeilOf(l[1] * alpha, 100), CeilOf(l[2] * alpha, 100),
           CeilOf(l[3] * alpha, 100) >>

\* The argument of the last call, as it was when the call was made.
LastArg == ArgValue(last.args[1], last.lists)

\* C1: after any sequence of constructions, setter assignments and in-place
\* blends, every Color's rgb equals [r, g, b] and parsing its hex gives that
\* same triple.  (Violated once the list read from a Color's rgb has been
\* handed to a constructor or to a setter, which appends the alpha to it.)
C1_RepresentationsAgree ==
    \A c \in ColorIds :
        /\ colors[c].rgb = <<colors[c].r, colors[c].g, colors[c].b>>
        /\ hex_to_rgb(colors[c].hex) = [err |-> NoErr, val |-> colors[c].rgb]

C3_OnlyWellFormedHexAccepted ==
    (last.op \in {"Color", "hex"} /\ last.args[1].t = "str") =>
        IF WellFormedHex(LastArg) THEN last.err = NoErr ELSE last.err = ValueError

\* C4: the hex read from a Color that a call has just built or updated
\* (from a hex string in any letter case, from a channel list, by a setter or
\* by a blend) is the canonical form: '#' and six lowercase digits, two per
\* channel.
C4_HexIsCanonical ==
    (last.op \in {"Color", "r", "g", "b", "rgb", "hex", "blend"} /\ last.err = NoErr) =>
        LET touched == IF last.op = "Color" THEN colors[last.ret]
                       ELSE IF last.op = "blend" THEN last.obj
                       ELSE colors[last.self]
        IN  touched.hex = CanonicalHex(touched.rgb)

\* The channels an element of a color_list stood for when the call was made.
ChannelsOf(x) ==
    IF x.t = "Color"
    THEN <<last.colors[x.id].r, last.colors[x.id].g, last.colors[x.id].b>>
    ELSE IF x.t = "list" THEN Premultiplied(ArgValue(x, last.lists))
    ELSE TripleOf(x.v)

\* An element blend_list must accept.
ValidInput(x) ==
    \/ x.t = "Color"
    \/ x.t = "list" /\ ValidChannels(ArgValue(x, last.lists))
    \/ x.t = "str" /\ WellFormedHex(x.v)

ValidInputs(color_list) ==
    Len(color_list) >= 1 /\ \A i \in 1..Len(color_list) : ValidInput(color_list[i])

\* Per channel, the ceiling of the arithmetic mean over color_list.
CeilingOfMean(color_list) ==
    LET n == Len(color_list)
        total[i \in 0..n] ==
            IF i = 0 THEN <<0, 0, 0>>
            ELSE << total[i - 1][1] + ChannelsOf(color_list[i])[1],
                    total[i - 1][2] + ChannelsOf(color_list[i])[2],
                    total[i - 1][3] + ChannelsOf(color_list[i])[3] >>
    IN  <<CeilOf(total[n][1], n), CeilOf(total[n][2], n), CeilOf(total[n][3], n)>>

Channels(obj) == <<obj.r, obj.g, obj.b>>

\* C5: on a non-empty sequence of valid inputs blend_list returns a new Color
\* whose channels are the ceilings of the per-channel arithmetic means, a list
\* contributing ceil(channel * alpha); the objects passed stay as they were.
C5_BlendListIsCeilingOfMean ==
    (last.op = "blend_list" /\ ValidInputs(last.args)) =>
        /\ last.err = NoErr
        /\ last.ret = 0
        /\ colors = last.colors
        /\ last.obj.rgb = CeilingOfMean(last.args)
        /\ Channels(last.obj) = CeilingOfMean(last.args)

\* C5 witness: white blended with black gave (128,128,128).
C5_Witness ==
    /\ last.op = "blend_list" /\ last.err = NoErr
    /\ last.args = << Str(<<"#","F","F","F","F","F","F">>),
                      Str(<<"0","0","0","0","0","0">>) >>
    /\ last.obj.rgb = <<128, 128, 128>>

\* The permutations of 1..n.
Orderings(n) == {p \in [1..n -> 1..n] : \A i, j \in 1..n : p[i] = p[j] => i = j}

\* C6: blend_list is order-independent: every permutation of a sequence of
\* valid inputs blends to the same channels.
C6_BlendListOrderIndependent ==
    (last.op = "blend_list" /\ ValidInputs(last.args)) =>
        \A p \in Orderings(Len(last.args)) :
            LET permuted == blend_list([i \in 1..Len(last.args) |-> last.args[p[i]]],
                                       last.colors, last.lists)
            IN  /\ permuted.err = last.err
                /\ permuted.obj.rgb = last.obj.rgb
                /\ Channels(permuted.obj) = Channels(last.obj)

\* C6 witness: a Color, a list and a string, with different channels, were
\* blended.
C6_Witness ==
    /\ last.op = "blend_list" /\ last.err = NoErr /\ Len(last.args) = 3
    /\ last.args[1].t = "Color" /\ last.args[2].t = "list" /\ last.args[3].t = "str"
    /\ ChannelsOf(last.args[1]) # ChannelsOf(last.args[2])
    /\ ChannelsOf(last.args[2]) # ChannelsOf(last.args[3])

\* C7: blend_list of n >= 1 copies of a Color returns exactly its channels.
C7_BlendOfCopiesIsIdentity ==
    ( /\ last.op = "blend_list" /\ Len(last.args) >= 1
      /\ \A i \in 1..Len(last.args) :
            last.args[i].t = "Color" /\ last.args[i].id = last.args[1].id ) =>
        /\ last.err = NoErr
        /\ last.obj.rgb = Channels(last.colors[last.args[1].id])
        /\ Channels(last.obj) = Channels(last.colors[last.args[1].id])

\* C7 witness: three copies of the colour (1,2,3) were blended.
C7_Witness ==
    /\ last.op = "blend_list" /\ Len(last.args) = 3
    /\ \A i \in 1..3 : last.args[i].t = "Color" /\ last.args[i].id = last.args[1].id
    /\ last.obj.rgb = <<1, 2, 3>>

C9_ArgumentsUntouched == lists = last.lists

\* The nine levels of an ElevationOverlay.
CanonicalLevels == {1, 2, 3, 4, 6, 8, 12, 16, 24}

\* C10: get_elevation(level) returns the precomputed overlay for a
\* canonical level and otherwise fails with the lookup's own error kind
\* (KeyError, the NotFoundError of the specification), not with the
\* ValueError of malformed colour input.
C10_LookupFailureIsNotFound ==
    last.op = "get_elevation" =>
        IF last.n \in CanonicalLevels
        THEN last.err = NoErr /\ last.val = overlay.members[DpKey(last.n)]
        ELSE last.err = KeyError

\* C11: an ElevationOverlay's table is fixed at construction: whatever the
\* client does next, short of building a new overlay, the keys stay the nine
\* canonical levels and get_elevation(level) returns what it returned before.
C11_OverlayTableFixed ==
    [][(overlay.built /\ last'.op # "ElevationOverlay") =>
          /\ DOMAIN overlay'.members = {DpKey(level) : level \in CanonicalLevels}
          /\ \A level \in CanonicalLevels :
                get_elevation(overlay'.members, level) = get_elevation(overlay.members, level)]_vars

\* The alpha (hundredths) of each canonical level.
LevelAlpha ==
    [level \in CanonicalLevels |->
        CASE level = 1 -> 5 [] level = 2 -> 7 [] level = 3 -> 8 [] level = 4 -> 9
          [] level = 6 -> 11 [] level = 8 -> 12 [] level = 12 -> 14
          [] level = 16 -> 15 [] level = 24 -> 16]

\* ceil((surface + ceil(contrast * alpha)) / 2) for one channel, the product
\* being the double product the program computes.
OverlayChannel(surface, contrast, alpha) == CeilOf(surface + CeilMul(contrast, alpha), 2)

\* The table an overlay of the two channel triples must hold.
OverlayTable(surface, contrast) ==
    [k \in {DpKey(level) : level \in CanonicalLevels} |->
        LET level == CHOOSE l \in CanonicalLevels : DpKey(l) = k
        IN  CanonicalHex(<< OverlayChannel(surface[1], contrast[1], LevelAlpha[level]),
                            OverlayChannel(surface[2], contrast[2], LevelAlpha[level]),
                            OverlayChannel(surface[3], contrast[3], LevelAlpha[level]) >>)]

\* C12: right after ElevationOverlay(surface, contrast) the value stored for
\* each canonical level is the colour with channels
\* ceil((surface + ceil(contrast * alpha)) / 2), alpha the level's; the
\* overlay of a theme is that of its surface and contrast, and for #121212
\* and #ffffff level 8 is (25,25,25).
C12_OverlayValues ==
    /\ last.op = "ElevationOverlay" =>
          /\ last.err = NoErr
          /\ overlay.members = OverlayTable(Channels(last.colors[last.self]),
                                            Channels(last.colors[last.other]))
    /\ last.op = "start" =>
          /\ \E i \in 1..Len(Themes) :
                /\ colors[1].hex = Themes[i].surface
                /\ overlay.members = OverlayTable(TripleOf(Themes[i].surface),
                                                  TripleOf(Themes[i].contrast))
          /\ Channels(colors[1]) = <<18, 18, 18>> =>
                overlay.members[DpKey(8)] = CanonicalHex(<<25, 25, 25>>)

\* C12 witness: an overlay was built from two different colours and its
\* level 8 is neither of them.
C12_Witness ==
    /\ last.op = "ElevationOverlay" /\ last.err = NoErr
    /\ Channels(last.colors[last.self]) # Channels(last.colors[last.other])
    /\ overlay.members[DpKey(8)] # CanonicalHex(Channels(last.colors[last.self]))
    /\ overlay.members[DpKey(8)] # CanonicalHex(Channels(last.colors[last.other]))

\* The five tint methods, by the attribute each reads.
StateNames == {"hover", "focus", "pressed", "dragged", "selected"}

\* Strings handed to a tint method to observe its state colour.
Probes == {Str(<<"0","0","0","0","0","0">>), Str(<<"#","F","F","F","F","F","F">>)}

\* C13: the five state colours of a States object are immutable after
\* construction: whatever the client does next, short of building a new
\* States, each tint method returns for every input the colour it returned
\* before.
C13_StateColoursFixed ==
    [][(states.built /\ last'.op # "States") =>
          \A name \in StateNames, x \in Probes :
              tint(states'[name], x, colors', lists').obj
                  = tint(states[name], x, colors, lists).obj]_vars

\* The achromatic overlay of each theme (1 dark, 2 light) and level:
\* <<channel, alpha>>.
OnSurfaceOverlay ==
    << << <<255, 87>>, <<255, 74>>, <<255, 38>> >>, << <<0, 87>>, <<0, 60>>, <<0, 38>> >> >>
OnPrimaryOverlay ==
    << << <<0, 100>>, <<0, 74>>, <<0, 38>> >>, << <<255, 100>>, <<255, 74>>, <<255, 38>> >> >>

\* The blend of a colour with an achromatic overlay <<channel, alpha>>.
EmphasisBlend(c, o) ==
    << CeilOf(c[1] + CeilMul(o[1], o[2]), 2), CeilOf(c[2] + CeilMul(o[1], o[2]), 2),
       CeilOf(c[3] + CeilMul(o[1], o[2]), 2) >>

\* C14: for each theme, Color and level, emphasis_on_surface and
\* emphasis_on_primary return the blend of the Color with the theme's overlay
\* for the level; no call ends in an error.
C14_EmphasisIsBlend ==
    /\ last.op = "emphasis_on_surface" =>
          /\ last.err = NoErr
          /\ Channels(last.obj)
                = EmphasisBlend(Channels(last.colors[last.self]),
                                OnSurfaceOverlay[last.other][last.n])
    /\ last.op = "emphasis_on_primary" =>
          /\ last.err = NoErr
          /\ Channels(last.obj)
                = EmphasisBlend(Channels(last.colors[last.self]),
                                OnPrimaryOverlay[last.other][last.n])

\* The channels of a Color with the channel named op set to v.
WithChannel(c, op, v) ==
    << IF op = "r" THEN v ELSE c.r, IF op = "g" THEN v ELSE c.g, IF op = "b" THEN v ELSE c.b >>

\* C15: assigning v to one channel of a Color: for v in [0,255] the channel
\* is v, the other two are as before, and rgb and hex are those of the new
\* triple; for any other v a ValueError is raised and the Color, like every
\* other Color, is exactly as before.
C15_ChannelAssignment ==
    last.op \in {"r", "g", "b"} =>
        LET before == last.colors[last.self]
            after == colors[last.self]
            triple == WithChannel(before, last.op, last.n)
        IN  IF last.n >= 0 /\ last.n <= 255
            THEN /\ last.err = NoErr
                 /\ Channels(after) = triple
                 /\ after.rgb = triple
                 /\ after.hex = CanonicalHex(triple)
                 /\ \A c \in ColorIds : c # last.self => colors[c] = last.colors[c]
            ELSE /\ last.err = ValueError
                 /\ colors = last.colors

\* C15 witness: r = 50 was assigned to a Color whose r was another value.
C15_Witness ==
    /\ last.op = "r" /\ last.n = 50 /\ last.err = NoErr
    /\ last.colors[last.self].r # 50
    /\ colors[last.self].r = 50
    /\ colors[last.self].hex # last.colors[last.self].hex

\* The attributes of a Color are three channels in [0,255], in r, g, b and
\* in rgb alike.
InRange(obj) ==
    /\ \A ch \in {obj.r, obj.g, obj.b} : ch \in 0..255
    /\ Len(obj.rgb) >= 3 /\ \A i \in 1..3 : obj.rgb[i] \in 0..255

\* C16: in every reachable state each channel of every Color, those alive
\* and the one the last call returned, is an integer in [0,255].
C16_ChannelsInRange ==
    /\ \A c \in ColorIds : InRange(colors[c])
    /\ (last.err = NoErr /\ last.obj # NoObj) => InRange(last.obj)

\* C16 witness: an in-place blend has returned a Color with a channel at the
\* top of the range.
C16_Witness ==
    /\ last.op = "blend" /\ last.inplace /\ last.err = NoErr
    /\ colors[last.self].r = 255

====
